---- MODULE Spec2Model ----
(***************************************************************************)
(* A model of algal_dashboard.py: the record loader (load_data and its     *)
(* st.cache_data memo), the script run of main() (species and date         *)
(* selection, filter_dataset, the marker loop and fit_bounds) and the      *)
(* trend aggregation (prepare_trends_data).                                *)
(*                                                                         *)
(* A table is a sequence of rows, a row is a record whose fields carry the *)
(* column names of the source.  A missing cell is NaN (numeric columns),   *)
(* NaT (the date column) or None (the species column).  Dates are day      *)
(* numbers.  A mean is kept exact, as a fraction <<numerator,              *)
(* denominator>> in lowest terms; the missing mean is <<0, 0>>.            *)
(***************************************************************************)
EXTENDS Integers, Sequences, FiniteSets

VARIABLES
    records_src,            \* the primary records file (file_path)
    coords_src,             \* the coordinate file (coords_csv)
    cache,                  \* st.cache_data memo of load_data for (file_path, coords_csv)
    df,                     \* the dataset load_data returned
    outcome,                \* where the latest call or script run ended
    session,                \* the widgets' state of the browser session
    species_selected,       \* species list passed to filter_dataset
    start_date,             \* lower date bound passed to filter_dataset
    end_date,               \* upper date bound passed to filter_dataset
    sub_df,                 \* result of filter_dataset
    points,                 \* the CircleMarkers added to the map
    bounds,                 \* the argument of m.fit_bounds, <<>> when it was not called
    selected_trend_species, \* species list passed to prepare_trends_data
    selected_site,          \* site passed to prepare_trends_data
    trend_melted,           \* result of prepare_trends_data
    trend_view              \* what the trends section showed

vars == <<records_src, coords_src, cache, df, outcome, session, species_selected,
          start_date, end_date, sub_df, points, bounds, selected_trend_species,
          selected_site, trend_melted, trend_view>>

runVars == <<session, species_selected, start_date, end_date, sub_df, points, bounds,
             selected_trend_species, selected_site, trend_melted, trend_view>>

----------------------------------------------------------------------------
(* Bounds and value universes *)

MaxRows == 2                \* longest primary records table

NaN == -1                   \* missing numeric cell (value, latitude, longitude)
NaT == 0                    \* missing date
Unparseable == -2           \* a date cell pd.to_datetime cannot parse
None == ""                  \* missing species cell

Days == {1, 2}
Sites == {"Site A", "Site B"}
AllSites == "All Sites"
Alexandrium == "Alexandrium sp."
Karenia == "Karenia mikimotoi"
Other == "Other sp."

\* The characters (code points) of the species names, for `in` and sorted().
Chars(s) ==
    CASE s = Alexandrium -> <<65, 108, 101, 120, 97, 110, 100, 114, 105, 117, 109, 32, 115, 112, 46>>
      [] s = Karenia -> <<75, 97, 114, 101, 110, 105, 97, 32, 109, 105, 107, 105, 109, 111, 116, 111, 105>>
      [] s = Other -> <<79, 116, 104, 101, 114, 32, 115, 112, 46>>
      [] OTHER -> <<>>

\* "Karenia"
Marker == <<75, 97, 114, 101, 110, 105, 97>>

Range(s) == {s[i] : i \in 1..Len(s)}

\* All sequences over S of length lo..hi.
SeqsOf(S, lo, hi) == UNION {[1..n -> S] : n \in lo..hi}

\* The increasing index lists of 1..n: the ways to pick a sub-list.
RECURSIVE Picks(_)
Picks(n) ==
    IF n = 0 THEN {<<>>}
    ELSE LET p == Picks(n - 1) IN p \cup {Append(q, n) : q \in p}

SubLists(s) == {[i \in 1..Len(p) |-> s[p[i]]] : p \in Picks(Len(s))}

----------------------------------------------------------------------------
(* load_data *)

File(rows) == [exists |-> TRUE, rows |-> rows]
MissingFile == [exists |-> FALSE, rows |-> <<>>]

\* pd.to_datetime over the date column: raises on a cell it cannot parse.
to_datetime_raises(rows) ==
    \E i \in 1..Len(rows) : rows[i].Date_Sample_Collected = Unparseable

JoinRow(r, lat, lon) ==
    [Site_Description |-> r.Site_Description,
     Date_Sample_Collected |-> r.Date_Sample_Collected,
     Result_Name |-> r.Result_Name,
     Result_Value_Numeric |-> r.Result_Value_Numeric,
     Latitude |-> lat, Longitude |-> lon]

\* The rows a left row yields in a left merge: one per matching right row,
\* in the right table's order, or one with missing coordinates.
Matches(r, coords_df) ==
    LET hits == SelectSeq(coords_df, LAMBDA c : c.Site_Description = r.Site_Description)
    IN  IF hits = <<>> THEN <<JoinRow(r, NaN, NaN)>>
        ELSE [i \in 1..Len(hits) |-> JoinRow(r, hits[i].Latitude, hits[i].Longitude)]

\* df.merge(coords_df, on="Site_Description", how="left")
RECURSIVE merge(_, _)
merge(rows, coords_df) ==
    IF rows = <<>> THEN <<>>
    ELSE Matches(Head(rows), coords_df) \o merge(Tail(rows), coords_df)

\* load_data(file_path, coords_csv): [status, df].  A missing primary file
\* gives pd.DataFrame(), a frame with no columns, and merging it on
\* "Site_Description" raises KeyError.
load_data(records, coords) ==
    IF records.exists /\ to_datetime_raises(records.rows)
        THEN [status |-> "ValueError", df |-> <<>>]
    ELSE IF ~coords.exists
        THEN [status |-> "stopped", df |-> <<>>]
    ELSE IF ~records.exists
        THEN [status |-> "KeyError", df |-> <<>>]
    ELSE [status |-> "ok", df |-> merge(records.rows, coords.rows)]

\* @st.cache_data: the memo is keyed by the arguments (the two path strings),
\* never by the files' contents; only a returned value is stored.
cached_load_data(memo, records, coords) ==
    IF memo # <<>> THEN [status |-> "ok", df |-> memo[1], cache |-> memo]
    ELSE LET r == load_data(records, coords)
         IN  [status |-> r.status, df |-> r.df,
              cache |-> IF r.status = "ok" THEN <<r.df>> ELSE <<>>]

----------------------------------------------------------------------------
(* Helpers of the script run *)

\* Lexicographic order of two strings, by code point, as Python compares str.
RECURSIVE LexLess(_, _)
LexLess(a, b) ==
    IF b = <<>> THEN FALSE
    ELSE IF a = <<>> THEN TRUE
    ELSE IF Head(a) # Head(b) THEN Head(a) < Head(b)
    ELSE LexLess(Tail(a), Tail(b))

\* sorted() of a set of strings.
RECURSIVE sorted(_)
sorted(S) ==
    IF S = {} THEN <<>>
    ELSE LET m == CHOOSE x \in S : \A y \in S \ {x} : LexLess(Chars(x), Chars(y))
         IN  <<m>> \o sorted(S \ {m})

\* Ascending list of a set of day numbers (the pivot's index).
RECURSIVE sorted_days(_)
sorted_days(S) ==
    IF S = {} THEN <<>>
    ELSE LET m == CHOOSE x \in S : \A y \in S : x <= y
         IN  <<m>> \o sorted_days(S \ {m})

\* `"Karenia" in s`: the marker occurs in s as a substring.
ContainsMarker(s) ==
    LET c == Chars(s)
    IN  \E i \in 1..(Len(c) - Len(Marker) + 1) : SubSeq(c, i, i + Len(Marker) - 1) = Marker

\* sorted(df['Result_Name'].dropna().unique())
all_species_of(d) == sorted({d[i].Result_Name : i \in 1..Len(d)} \ {None})

\* sorted(df['Site_Description'].dropna().unique()), as the set of options
all_sites_of(d) == {d[i].Site_Description : i \in 1..Len(d)}

\* s[:n]
Prefix(s, n) == SubSeq(s, 1, IF Len(s) < n THEN Len(s) ELSE n)

\* [s for s in all_species if "Karenia" in s] or all_species[:n]
default_species_of(all_species, n) ==
    LET k == SelectSeq(all_species, ContainsMarker)
    IN  IF k # <<>> THEN k ELSE Prefix(all_species, n)

\* if not species_selected: species_selected = all_species[:1]
species_fallback(chosen, all_species) ==
    IF chosen = <<>> THEN Prefix(all_species, 1) ELSE chosen

\* Series.min() and Series.max(): missing cells are skipped, and the result is
\* missing when every cell is.
series_min(cells, missing) ==
    LET S == Range(cells) \ {missing}
    IN  IF S = {} THEN missing ELSE CHOOSE m \in S : \A x \in S : m <= x

series_max(cells, missing) ==
    LET S == Range(cells) \ {missing}
    IN  IF S = {} THEN missing ELSE CHOOSE m \in S : \A x \in S : m >= x

Column(d, name) == [i \in 1..Len(d) |-> d[i][name]]

\* df[mask]
BoolIndex(d, mask) ==
    LET idx == SelectSeq([i \in 1..Len(d) |-> i], LAMBDA i : mask[i])
    IN  [k \in 1..Len(idx) |-> d[idx[k]]]

----------------------------------------------------------------------------
(* filter_dataset *)

\* Series.between with the bounds excluded.
between_exclusive(cells, left, right) ==
    [i \in 1..Len(cells) |->
        /\ cells[i] # NaT /\ left # NaT /\ right # NaT
        /\ cells[i] > left
        /\ cells[i] < right]

\* Series.between(left, right), inclusive="both": (s >= left) & (s <= right);
\* a comparison with NaT is False.
between(cells, left, right) ==
    [i \in 1..Len(cells) |->
        /\ cells[i] # NaT /\ left # NaT /\ right # NaT
        /\ cells[i] >= left
        /\ cells[i] <= right]

isin(cells, values) == [i \in 1..Len(cells) |-> cells[i] \in Range(values)]

notna(cells) == [i \in 1..Len(cells) |-> cells[i] # NaN]

filter_dataset(d, species_list, start_dt, end_dt) ==
    LET a == isin(Column(d, "Result_Name"), species_list)
        b == between(Column(d, "Date_Sample_Collected"), start_dt, end_dt)
        c == notna(Column(d, "Result_Value_Numeric"))
        mask == [i \in 1..Len(d) |-> a[i] /\ b[i] /\ c[i]]
    IN  BoolIndex(d, mask)

----------------------------------------------------------------------------
(* The map: markers and fit_bounds *)

\* The CircleMarker loop: one marker per row with both coordinates.
markers(sub) ==
    LET located == SelectSeq(sub, LAMBDA r : r.Latitude # NaN /\ r.Longitude # NaN)
    IN  [i \in 1..Len(located) |->
            [location |-> <<located[i].Latitude, located[i].Longitude>>,
             popup |-> <<located[i].Site_Description, located[i].Date_Sample_Collected,
                         located[i].Result_Name, located[i].Result_Value_Numeric>>]]

\* if not sub_df.empty: m.fit_bounds([[lat.min(), lon.min()], [lat.max(), lon.max()]])
fit_bounds(sub) ==
    IF sub = <<>> THEN <<>>
    ELSE <<<<series_min(Column(sub, "Latitude"), NaN), series_min(Column(sub, "Longitude"), NaN)>>,
           <<series_max(Column(sub, "Latitude"), NaN), series_max(Column(sub, "Longitude"), NaN)>>>>

----------------------------------------------------------------------------
(* prepare_trends_data *)

RECURSIVE Sum(_)
Sum(cells) == IF cells = <<>> THEN 0 ELSE Head(cells) + Sum(Tail(cells))

RECURSIVE GCD(_, _)
GCD(a, b) == IF b = 0 THEN a ELSE GCD(b, a % b)

NaNMean == <<0, 0>>

\* The exact fraction num/den in lowest terms.
Fraction(num, den) == LET g == GCD(num, den) IN <<num \div g, den \div g>>

\* aggfunc='sum'
aggfunc_sum(cells) == Fraction(Sum(cells), 1)

\* aggfunc='mean' over the cells of one (date, species) group

aggfunc(cells) == Fraction(Sum(cells), Len(cells))

\* sort_values('Date_Sample_Collected'): stable, missing dates last.
sort_values(d) ==
    LET days == sorted_days({d[i].Date_Sample_Collected : i \in 1..Len(d)} \ {NaT})
        RECURSIVE by_day(_)
        by_day(k) ==
            IF k > Len(days) THEN <<>>
            ELSE SelectSeq(d, LAMBDA r : r.Date_Sample_Collected = days[k]) \o by_day(k + 1)
    IN  by_day(1) \o SelectSeq(d, LAMBDA r : r.Date_Sample_Collected = NaT)

\* pivot_table(index=date, columns=species, values=value, aggfunc='mean'):
\* the index and the columns are the sorted keys present (a missing key forms
\* no group), a cell with no record is missing.
pivot_index(plot_df) ==
    sorted_days({plot_df[i].Date_Sample_Collected : i \in 1..Len(plot_df)} \ {NaT})

pivot_columns(plot_df) ==
    sorted({plot_df[i].Result_Name :
              i \in {j \in 1..Len(plot_df) : plot_df[j].Date_Sample_Collected # NaT}})

pivot_cell(plot_df, day, species) ==
    LET group == SelectSeq(plot_df, LAMBDA r : /\ r.Date_Sample_Collected = day
                                               /\ r.Result_Name = species)
    IN  IF group = <<>> THEN NaNMean
        ELSE aggfunc(Column(group, "Result_Value_Numeric"))

\* trend_df.melt(id_vars=date, var_name='Species', value_name='Cell_Count'):
\* one row per cell of the pivot, column after column; no cell is dropped.
melt(plot_df) ==
    LET index == pivot_index(plot_df)
        columns == pivot_columns(plot_df)
        ni == Len(index)
    IN  [k \in 1..(Len(columns) * ni) |->
            LET species == columns[((k - 1) \div ni) + 1]
                day == index[((k - 1) % ni) + 1]
            IN  [Date_Sample_Collected |-> day, Species |-> species,
                 Cell_Count |-> pivot_cell(plot_df, day, species)]]

\* The site restriction: none for "All Sites", else exactly the named site.
site_scope(plot_df, site_name) ==
    IF site_name # AllSites
        THEN SelectSeq(plot_df, LAMBDA r : r.Site_Description = site_name)
        ELSE plot_df

prepare_trends_data(full_df, species_list, site_name) ==
    LET a == isin(Column(full_df, "Result_Name"), species_list)
        c == notna(Column(full_df, "Result_Value_Numeric"))
        selected == BoolIndex(full_df, [i \in 1..Len(full_df) |-> a[i] /\ c[i]])
        plot_df == sort_values(site_scope(selected, site_name))
    IN  IF plot_df = <<>> THEN <<>> ELSE melt(plot_df)

----------------------------------------------------------------------------
(* main(): one script run *)

WeekDays == 7               \* timedelta(days=7)

NoSession == [species |-> <<>>, date_range |-> <<>>, trend_species |-> <<>>, site |-> AllSites]

\* The value a widget returns: its default until the user has set it.
widget(state, default) == IF state = <<>> THEN default ELSE state[1]

\* The filtered subset passed instead.
trend_input_filtered(full_df, sub) == sub

\* The dataset main passes to prepare_trends_data: the full one.

trend_input(full_df, sub) == full_df

\* A script run of main with the widgets in state sess: load_data through its
\* memo, then lines 160-339; an exception or st.stop() in load_data ends the
\* run.  (x \in {e} binds x to the value of e, as an assignment does.)
Run(sess) ==
    \E ld \in {cached_load_data(cache, records_src, coords_src)} :
        /\ cache' = ld.cache
        /\ session' = sess
        /\ UNCHANGED <<records_src, coords_src>>
        /\ IF ld.status # "ok"
             THEN /\ outcome' = ld.status
                  /\ UNCHANGED <<df, species_selected, start_date, end_date, sub_df, points,
                                 bounds, selected_trend_species, selected_site,
                                 trend_melted, trend_view>>
             ELSE
               \E all_species \in {all_species_of(ld.df)} :
               \E default_species \in {default_species_of(all_species, 1)} :
               \E chosen \in {species_fallback(widget(sess.species, default_species),
                                               all_species)} :
               \E min_date \in {series_min(Column(ld.df, "Date_Sample_Collected"), NaT)} :
               \E max_date \in {series_max(Column(ld.df, "Date_Sample_Collected"), NaT)} :
               \E last_week_start \in {IF max_date = NaT THEN NaT ELSE max_date - WeekDays} :
               \E date_range \in {widget(sess.date_range, <<last_week_start, max_date>>)} :
               \E start_dt \in {IF Len(date_range) = 2 THEN date_range[1] ELSE min_date} :
               \E end_dt \in {IF Len(date_range) = 2 THEN date_range[2] ELSE max_date} :
               \E sub \in {filter_dataset(ld.df, chosen, start_dt, end_dt)} :
               \E default_trend_species \in {default_species_of(all_species, 3)} :
               \E trend_species \in {widget(sess.trend_species, default_trend_species)} :
               \E trend \in {IF ld.df # <<>>
                               THEN prepare_trends_data(trend_input(ld.df, sub),
                                                        trend_species, sess.site)
                               ELSE <<>>} :
                  /\ outcome' = "rendered"
                  /\ df' = ld.df
                  /\ species_selected' = chosen
                  /\ start_date' = start_dt
                  /\ end_date' = end_dt
                  /\ sub_df' = sub
                  /\ points' = markers(sub)
                  /\ bounds' = fit_bounds(sub)
                  /\ selected_trend_species' = trend_species
                  /\ selected_site' = sess.site
                  /\ trend_melted' = trend
                  /\ trend_view' = IF ld.df = <<>> THEN "No data loaded"
                                   ELSE IF trend # <<>> THEN "chart"
                                   ELSE "No data available"

----------------------------------------------------------------------------
(* The inputs *)

Row(site, day, species, value) ==
    [Site_Description |-> site, Date_Sample_Collected |-> day,
     Result_Name |-> species, Result_Value_Numeric |-> value]

Coord(site, lat, lon) == [Site_Description |-> site, Latitude |-> lat, Longitude |-> lon]

\* Coordinate files: no file; one site known; both sites known; a site with a
\* latitude and no longitude.
CoordFiles ==
    {MissingFile,
     File(<<Coord("Site A", -35, 138)>>),
     File(<<Coord("Site A", -35, 138), Coord("Site B", -34, 139)>>),
     File(<<Coord("Site A", -35, 138), Coord("Site B", -34, NaN)>>)}

Idle ==
    /\ session = NoSession
    /\ species_selected = <<>>
    /\ start_date = NaT
    /\ end_date = NaT
    /\ sub_df = <<>>
    /\ points = <<>>
    /\ bounds = <<>>
    /\ selected_trend_species = <<>>
    /\ selected_site = AllSites
    /\ trend_melted = <<>>
    /\ trend_view = "none"

----------------------------------------------------------------------------
(* The dashboard session: a first script run, then one rerun per widget     *)
(* change.  The two files do not change during the session.                 *)

MainRows == {Row(s, d, n, 100) : s \in Sites, d \in Days, n \in {Alexandrium, Karenia}}

Init ==
    /\ records_src \in {MissingFile} \cup {File(t) : t \in SeqsOf(MainRows, 1, MaxRows)}
    /\ coords_src \in CoordFiles
    /\ cache = <<>>
    /\ df = <<>>
    /\ outcome = "start"
    /\ Idle

FirstRun ==
    /\ outcome = "start"
    /\ Run(NoSession)

SelectSpecies ==
    /\ outcome = "rendered"
    /\ \E sel \in SubLists(all_species_of(df)) :
          Run([session EXCEPT !.species = <<sel>>])

SelectDateRange ==
    /\ outcome = "rendered"
    /\ LET lo == series_min(Column(df, "Date_Sample_Collected"), NaT)
           hi == series_max(Column(df, "Date_Sample_Collected"), NaT)
       IN  \E a \in lo..hi : \E b \in a..hi : \E picked \in {<<a>>, <<a, b>>} :
              Run([session EXCEPT !.date_range = <<picked>>])

SelectTrendSpecies ==
    /\ outcome = "rendered"
    /\ \E sel \in SubLists(all_species_of(df)) :
          Run([session EXCEPT !.trend_species = <<sel>>])

SelectSite ==
    /\ outcome = "rendered"
    /\ \E site \in {AllSites} \cup all_sites_of(df) :
          Run([session EXCEPT !.site = site])

Next == FirstRun \/ SelectSpecies \/ SelectDateRange \/ SelectTrendSpecies \/ SelectSite

Spec == Init /\ [][Next]_vars

\* The same session with one site and one coordinate file.
WindowRows == {Row("Site A", d, n, 100) : d \in Days, n \in {Alexandrium, Karenia}}

WindowInit ==
    /\ records_src \in {File(t) : t \in SeqsOf(WindowRows, 1, MaxRows)}
    /\ coords_src = File(<<Coord("Site A", -35, 138)>>)
    /\ cache = <<>>
    /\ df = <<>>
    /\ outcome = "start"
    /\ Idle

SpecWindow == WindowInit /\ [][Next]_vars

----------------------------------------------------------------------------
(* The loader and its memo, while the ingestion process rewrites the files. *)

LoadRows == {Row(s, d, Karenia, 100) : s \in Sites, d \in {1, Unparseable}}

LoadRecordFiles == {MissingFile} \cup {File(t) : t \in SeqsOf(LoadRows, 0, MaxRows)}

LoadCoordFiles ==
    CoordFiles \cup {File(<<Coord("Site A", -35, 138), Coord("Site A", -34, 139)>>)}

LoadInit ==
    /\ records_src \in LoadRecordFiles
    /\ coords_src \in LoadCoordFiles
    /\ cache = <<>>
    /\ df = <<>>
    /\ outcome = "start"
    /\ Idle

\* The primary file is replaced, created or removed.
WriteRecords ==
    /\ \E f \in LoadRecordFiles \ {records_src} : records_src' = f
    /\ outcome' = "changed"
    /\ UNCHANGED <<coords_src, cache, df>>
    /\ UNCHANGED runVars

\* The coordinate file is replaced, created or removed.
WriteCoords ==
    /\ \E f \in LoadCoordFiles \ {coords_src} : coords_src' = f
    /\ outcome' = "changed"
    /\ UNCHANGED <<records_src, cache, df>>
    /\ UNCHANGED runVars

\* df = load_data(file_path, coords_csv)
CallLoadData ==
    /\ \E ld \in {cached_load_data(cache, records_src, coords_src)} :
          /\ cache' = ld.cache
          /\ outcome' = IF ld.status = "ok" THEN "returned" ELSE ld.status
          /\ df' = IF ld.status = "ok" THEN ld.df ELSE df
    /\ UNCHANGED <<records_src, coords_src>>
    /\ UNCHANGED runVars

LoadNext == WriteRecords \/ WriteCoords \/ CallLoadData

SpecLoad == LoadInit /\ [][LoadNext]_vars

----------------------------------------------------------------------------
(* filter_dataset on any dataset and any arguments *)

FilterRows ==
    {Row("Site A", d, n, v) : d \in Days \cup {NaT}, n \in {Alexandrium, Karenia, None},
                              v \in {NaN, 100}}

FilterInit ==
    /\ records_src \in {File(t) : t \in SeqsOf(FilterRows, 0, MaxRows)}
    /\ coords_src = File(<<Coord("Site A", -35, 138)>>)
    /\ cache = <<>>
    /\ df = load_data(records_src, coords_src).df
    /\ outcome = "call"
    /\ session = NoSession
    /\ species_selected \in SubLists(<<Alexandrium, Other>>)
    /\ start_date \in Days
    /\ end_date \in Days
    /\ sub_df = <<>>
    /\ points = <<>>
    /\ bounds = <<>>
    /\ selected_trend_species = <<>>
    /\ selected_site = AllSites
    /\ trend_melted = <<>>
    /\ trend_view = "none"

CallFilter ==
    /\ outcome = "call"
    /\ sub_df' = filter_dataset(df, species_selected, start_date, end_date)
    /\ outcome' = "filtered"
    /\ UNCHANGED <<records_src, coords_src, cache, df, session, species_selected,
                   start_date, end_date, points, bounds, selected_trend_species,
                   selected_site, trend_melted, trend_view>>

FilterNext == CallFilter

SpecFilter == FilterInit /\ [][FilterNext]_vars

----------------------------------------------------------------------------
(* prepare_trends_data on any dataset and any arguments *)

TrendRows ==
    {Row(s, d, n, v) : s \in Sites, d \in Days, n \in {Alexandrium, Karenia},
                       v \in {NaN, 100, 300}}

TrendInit ==
    /\ records_src \in {File(t) : t \in SeqsOf(TrendRows, 0, MaxRows)}
    /\ coords_src = File(<<Coord("Site A", -35, 138)>>)
    /\ cache = <<>>
    /\ df = load_data(records_src, coords_src).df
    /\ outcome = "call"
    /\ session = NoSession
    /\ species_selected = <<>>
    /\ start_date = NaT
    /\ end_date = NaT
    /\ sub_df = <<>>
    /\ points = <<>>
    /\ bounds = <<>>
    /\ selected_trend_species \in SubLists(<<Alexandrium, Karenia>>)
    /\ selected_site \in {AllSites} \cup Sites
    /\ trend_melted = <<>>
    /\ trend_view = "none"

CallTrend ==
    /\ outcome = "call"
    /\ trend_melted' = prepare_trends_data(df, selected_trend_species, selected_site)
    /\ outcome' = "aggregated"
    /\ UNCHANGED <<records_src, coords_src, cache, df, session, species_selected,
                   start_date, end_date, sub_df, points, bounds, selected_trend_species,
                   selected_site, trend_view>>

TrendNext == CallTrend

SpecTrend == TrendInit /\ [][TrendNext]_vars

----------------------------------------------------------------------------
(* Properties *)

Called == outcome \notin {"start", "changed"}

\* The latest load_data call ran its body on the files as they are now (it
\* raised or stopped, or returned what they yield), not a memoized result of
\* earlier contents.
Computed ==
    \/ outcome \in {"ValueError", "KeyError", "stopped"}
    \/ /\ outcome = "returned"
       /\ load_data(records_src, coords_src) = [status |-> "ok", df |-> df]

ParseableRows(rows) == SelectSeq(rows, LAMBDA r : r.Date_Sample_Collected # Unparseable)

\* C1: the dataset load_data returns for the current files has exactly as many
\* rows as the primary records table, also when a site is absent from the
\* coordinate table or listed there more than once.
RowCountPreserved ==
    (outcome = "returned" /\ Computed) => Len(df) = Len(records_src.rows)

\* C2: with the primary file missing and the coordinate file present, the run
\* gets an empty dataset from load_data and ends in the "No data loaded" state.
MissingRecordsGivesNoData ==
    (Called /\ ~records_src.exists /\ coords_src.exists)
        => /\ outcome = "rendered"
           /\ df = <<>>
           /\ trend_view = "No data loaded"

\* C3: filter_dataset returns exactly the rows whose species is in the list,
\* whose date lies in [start, end] (bounds included) and whose value is not
\* missing; the result is empty when start > end or when no row has a listed
\* species.
FilterExact ==
    outcome = "filtered" =>
        /\ sub_df = SelectSeq(df, LAMBDA r :
                        /\ \E k \in 1..Len(species_selected) : species_selected[k] = r.Result_Name
                        /\ r.Date_Sample_Collected \in start_date..end_date
                        /\ r.Result_Value_Numeric # NaN)
        /\ start_date > end_date => sub_df = <<>>
        /\ (\A i \in 1..Len(df) : df[i].Result_Name \notin Range(species_selected))
              => sub_df = <<>>

FilterExactWitness ==
    /\ outcome = "filtered"
    /\ Len(df) = 2
    /\ Len(sub_df) = 1
    /\ start_date < end_date
    /\ sub_df[1].Date_Sample_Collected = end_date

\* The species the default policy names: every species containing the marker,
\* or else the first one in lexicographic order.
PolicySpecies(d) ==
    LET names == {d[i].Result_Name : i \in 1..Len(d)} \ {None}
        marked == {n \in names : ContainsMarker(n)}
    IN  IF marked # {} THEN marked
        ELSE {n \in names : \A o \in names \ {n} : LexLess(Chars(n), Chars(o))}

\* C4: whenever no species is explicitly chosen (the widget untouched or
\* cleared), the species passed to filter_dataset are the marked species, or
\* else the lexicographically first one, and never none.
DefaultSpeciesPolicy ==
    (outcome = "rendered" /\ session.species \in {<<>>, <<<<>>>>})
        => /\ Range(species_selected) = PolicySpecies(df)
           /\ species_selected # <<>>

\* C5: a rerun that changes nothing but the map's date range leaves the result
\* of prepare_trends_data as it was.
TrendIgnoresDateWindow ==
    [][(/\ outcome = "rendered"
        /\ outcome' = "rendered"
        /\ session' = [session EXCEPT !.date_range = session'.date_range])
          => trend_melted' = trend_melted]_vars

TrendIgnoresDateWindowWitness ==
    /\ outcome = "rendered"
    /\ session.date_range # <<>>
    /\ Len(sub_df) < Len(df)
    /\ \E k \in 1..Len(trend_melted) :
          /\ trend_melted[k].Date_Sample_Collected \notin start_date..end_date
          /\ trend_melted[k].Cell_Count # NaNMean

\* The records of d behind the trend point (day, species) for the selection.
TrendRecords(d, species_list, site_name, day, species) ==
    {i \in 1..Len(d) :
        /\ d[i].Date_Sample_Collected = day
        /\ d[i].Result_Name = species
        /\ species \in Range(species_list)
        /\ d[i].Result_Value_Numeric # NaN
        /\ site_name = AllSites \/ d[i].Site_Description = site_name}

RECURSIVE TotalOf(_, _)
TotalOf(d, recs) ==
    IF recs = {} THEN 0
    ELSE LET i == CHOOSE j \in recs : TRUE
         IN  d[i].Result_Value_Numeric + TotalOf(d, recs \ {i})

\* C6: every (date, species) pair with a matching record has exactly one row
\* in the result, and its Cell_Count is the arithmetic mean of the matching
\* records' values.
TrendMeanPerPair ==
    outcome = "aggregated" =>
        \A day \in Days : \A species \in {Alexandrium, Karenia} :
            LET recs == TrendRecords(df, selected_trend_species, selected_site, day, species)
                rows == {k \in 1..Len(trend_melted) :
                            /\ trend_melted[k].Date_Sample_Collected = day
                            /\ trend_melted[k].Species = species}
            IN  recs # {} =>
                  /\ Cardinality(rows) = 1
                  /\ \A k \in rows :
                        /\ trend_melted[k].Cell_Count[2] > 0
                        /\ trend_melted[k].Cell_Count[1] * Cardinality(recs)
                             = TotalOf(df, recs) * trend_melted[k].Cell_Count[2]

TrendMeanPerPairWitness ==
    /\ outcome = "aggregated"
    /\ Len(df) = 2
    /\ df[1].Result_Value_Numeric = 100
    /\ df[2].Result_Value_Numeric = 300
    /\ Len(trend_melted) = 1
    /\ trend_melted[1].Cell_Count = <<200, 1>>

\* C7: every row of the result stands for a (date, species) pair with at
\* least one matching record and carries its mean, never a missing value.
TrendNoMissingRows ==
    outcome = "aggregated" =>
        \A k \in 1..Len(trend_melted) :
            /\ trend_melted[k].Cell_Count # NaNMean
            /\ TrendRecords(df, selected_trend_species, selected_site,
                            trend_melted[k].Date_Sample_Collected,
                            trend_melted[k].Species) # {}

\* C8: fit_bounds is called only when a point was produced, and its box is
\* then the minimum and maximum latitude and longitude over the points.
BoundsOnlyOverPoints ==
    outcome = "rendered" =>
        /\ bounds # <<>> => points # <<>>
        /\ bounds # <<>> =>
              LET lats == {points[i].location[1] : i \in 1..Len(points)}
                  lons == {points[i].location[2] : i \in 1..Len(points)}
              IN  /\ bounds[1][1] \in lats /\ \A x \in lats : bounds[1][1] <= x
                  /\ bounds[1][2] \in lons /\ \A x \in lons : bounds[1][2] <= x
                  /\ bounds[2][1] \in lats /\ \A x \in lats : bounds[2][1] >= x
                  /\ bounds[2][2] \in lons /\ \A x \in lons : bounds[2][2] >= x

\* C9: a row whose date cannot be parsed is dropped and the load succeeds: the
\* dataset returned for the current files is the join of the parseable rows.
MalformedDateDropped ==
    (Computed /\ records_src.exists /\ coords_src.exists)
        => /\ outcome = "returned"
           /\ df = merge(ParseableRows(records_src.rows), coords_src.rows)

\* C10: load_data returns a previously computed dataset only if neither file
\* changed since: what a call returns is the join of the current contents.
CacheFreshAfterChange ==
    (outcome = "returned" /\ load_data(records_src, coords_src).status = "ok")
        => df = load_data(records_src, coords_src).df

====
